---- MODULE Spec2Model ----
(***************************************************************************)
(* Timer engine of tomato-clock-waybar (src/src/timer.rs) with its         *)
(* persistence bridge (src/src/persistence.rs).                            *)
(*                                                                         *)
(* Durations are whole seconds.  Option<T> is a sequence of length 0 or 1. *)
(* Timestamps (Local::now()) are abstracted to the single value Now: the   *)
(* engine never computes with them, it only stores and clears them.        *)
(***************************************************************************)
EXTENDS Integers, Sequences, FiniteSets, TLC

VARIABLES
    info,          \* Arc<Mutex<TimerInfo>>: the snapshot
    persistent_state,  \* persistence.rs STATE, the in-process persisted record
    file,          \* the record in state.json
    diskOk,        \* whether fs::write of state.json succeeds
    command_rx,    \* the mpsc command channel, oldest first
    loopAlive,     \* timer_logic_task has not returned
    pc,            \* position of timer_logic_task: "select" or "advance"
    last,          \* history: the input the loop handled last, the state it
                   \* was handled in and the event it sent
    rejected,      \* history: kind of the command whose send_command failed
                   \* last, or the error the caller layer returned last
    phaseTicks,    \* history: ticks the current phase has consumed since it was
                   \* entered by Start or by tick exhaustion, with nothing but
                   \* ticks handled since that Start; -1 otherwise
    workflows      \* WorkflowManager's catalog, as loaded from workflows.json

vars ==
    <<info, persistent_state, file, diskOk, command_rx, loopAlive, pc, last, rejected,
      phaseTicks, workflows>>

-----------------------------------------------------------------------------
(* Bounds and program constants *)

MaxQueue == 1

MaxDuration == 1

SecondsPerMinute == 60

SaveEvery == 10

-----------------------------------------------------------------------------
(* Data model *)

None == <<>>

Some(x) == <<x>>

IsSome(o) == o # None

Get(o) == o[1]

Now == "now"

Phase(name, duration) == [name |-> name, duration |-> duration]

Workflow(name, phases, repeatable) ==
    [name |-> name, phases |-> phases, repeatable |-> repeatable]

\* Duration::minutes(n)
Minutes(n) == n * SecondsPerMinute

\* Workflows of the catalog that satisfy the data model: at least one phase,
\* phase names unique.  parse_phases accepts a duration of 0.
Pomodoro == Workflow("Pomodoro", <<Phase("Work", MaxDuration), Phase("Break", 1)>>, TRUE)

Once == Workflow("Once", <<Phase("Work", 1)>>, FALSE)

Loop == Workflow("Loop", <<Phase("Focus", 1)>>, TRUE)

Sprint ==
    Workflow("Sprint", <<Phase("Warmup", 0), Phase("Work", 1), Phase("Cooldown", 0)>>, FALSE)

Workflows == {Pomodoro, Once, Loop, Sprint}

\* A workflow whose phases are all of 0 minutes: every tick exhausts a phase.
Blitz == Workflow("Blitz", <<Phase("Ready", 0), Phase("Go", 0)>>, FALSE)

Statuses == {"work", "study"}

\* Workflow::default()
DefaultWorkflow == Workflow("Default Pomodoro", <<Phase("Work", 25), Phase("Break", 5)>>, TRUE)

\* The catalog WorkflowManager::new builds when there is no workflows.json.
LongWorkSession ==
    Workflow("Long Work Session", <<Phase("Work", 50), Phase("Break", 10)>>, TRUE)

DefaultWorkflows == {DefaultWorkflow, LongWorkSession}

\* Status::default()
DefaultStatus == "work"

Command(kind, workflow, status) == [kind |-> kind, workflow |-> workflow, status |-> status]

\* The Start commands submitted: every workflow, every status, and one
\* workflow under both statuses (the status command restarts the current
\* workflow under another status).
StartInputs ==
    {<<Pomodoro, "work">>, <<Pomodoro, "study">>, <<Once, "study">>,
     <<Loop, "work">>, <<Sprint, "study">>}

StartCommands == {Command("Start", Some(ws[1]), Some(ws[2])) : ws \in StartInputs}

Commands == StartCommands \cup {Command(k, None, None) : k \in {"Pause", "Resume", "Stop", "Skip"}}

\* PersistentState::default()
DefaultState ==
    [timer_state |-> "Idle", current_phase |-> None, current_status |-> None,
     current_workflow |-> None, start_time |-> None, elapsed_seconds |-> 0,
     last_saved |-> Now]

-----------------------------------------------------------------------------
(* Pure parts of the engine *)

\* A record built without the snapshot's status.
save_timer_state_NoStatus(i) ==
    [timer_state |-> i.state, current_phase |-> i.current_phase,
     current_status |-> None, current_workflow |-> i.current_workflow,
     start_time |-> i.start_time, elapsed_seconds |-> i.elapsed_time,
     last_saved |-> Now]

\* The record save_timer_state builds from the snapshot.
save_timer_state(i) ==
    [timer_state |-> i.state, current_phase |-> i.current_phase,
     current_status |-> i.current_status, current_workflow |-> i.current_workflow,
     start_time |-> i.start_time, elapsed_seconds |-> i.elapsed_time,
     last_saved |-> Now]

\* Timer::new that starts the elapsed time afresh.
TimerNew_FreshElapsed(p) ==
    LET base == [state |-> p.timer_state, current_phase |-> p.current_phase,
                 time_remaining |-> None, elapsed_time |-> 0,
                 current_status |-> p.current_status,
                 current_workflow |-> p.current_workflow,
                 start_time |-> p.start_time, pause_time |-> None]
    IN  IF base.state = "Running" /\ IsSome(base.current_phase)
        THEN [base EXCEPT !.time_remaining =
                             Some(Minutes(Get(base.current_phase).duration))]
        ELSE base

\* The snapshot Timer::new builds from the persisted record.
TimerNew(p) ==
    LET base == [state |-> p.timer_state, current_phase |-> p.current_phase,
                 time_remaining |-> None, elapsed_time |-> p.elapsed_seconds,
                 current_status |-> p.current_status,
                 current_workflow |-> p.current_workflow,
                 start_time |-> p.start_time, pause_time |-> None]
    IN  IF base.state = "Running" /\ IsSome(base.current_phase)
        THEN LET total == Minutes(Get(base.current_phase).duration)
             IN  IF base.elapsed_time < total
                 THEN [base EXCEPT !.time_remaining = Some(total - base.elapsed_time)]
                 ELSE [base EXCEPT !.time_remaining = Some(0)]
        ELSE base

\* phases.iter().position(|p| p.name == name): the first index, 0 when absent
\* (indices are 1-based here).
position(phases, name) ==
    LET hits == {k \in 1..Len(phases) : phases[k].name = name}
    IN  IF hits = {} THEN 0 ELSE CHOOSE k \in hits : \A j \in hits : k <= j

\* Start that forgets to reset elapsed_time.
StartInfo_KeepsElapsed(i, workflow, status) ==
    LET workflow_to_use == IF IsSome(workflow) THEN Get(workflow) ELSE DefaultWorkflow
        status_to_use == IF IsSome(status) THEN Get(status) ELSE DefaultStatus
    IN  [i EXCEPT !.current_phase = Some(workflow_to_use.phases[1]),
                  !.time_remaining = Some(Minutes(workflow_to_use.phases[1].duration)),
                  !.current_workflow = Some(workflow_to_use),
                  !.current_status = Some(status_to_use),
                  !.state = "Running",
                  !.start_time = Some(Now)]

\* TimerCommand::Start
StartInfo(i, workflow, status) ==
    LET workflow_to_use == IF IsSome(workflow) THEN Get(workflow) ELSE DefaultWorkflow
        status_to_use == IF IsSome(status) THEN Get(status) ELSE DefaultStatus
        withPhase == IF Len(workflow_to_use.phases) > 0
                     THEN [i EXCEPT !.current_phase = Some(workflow_to_use.phases[1]),
                                    !.time_remaining =
                                        Some(Minutes(workflow_to_use.phases[1].duration))]
                     ELSE i
    IN  [withPhase EXCEPT !.current_workflow = Some(workflow_to_use),
                          !.current_status = Some(status_to_use),
                          !.state = "Running",
                          !.start_time = Some(Now),
                          !.elapsed_time = 0]

\* Pause that starts the elapsed time over.
PauseInfo_ResetsElapsed(i) ==
    [i EXCEPT !.state = "Paused", !.pause_time = Some(Now), !.elapsed_time = 0]

\* TimerCommand::Pause, when the state is Running
PauseInfo(i) == [i EXCEPT !.state = "Paused", !.pause_time = Some(Now)]

\* TimerCommand::Resume, when the state is Paused
ResumeInfo(i) == [i EXCEPT !.state = "Running", !.pause_time = None]

\* Stop that forgets the workflow as well.
StopInfo_ClearsWorkflow(i) ==
    [i EXCEPT !.state = "Idle", !.current_phase = None, !.time_remaining = None,
              !.start_time = None, !.pause_time = None, !.current_workflow = None]

\* Stop that forgets to clear current_phase.
StopInfo_KeepsPhase(i) ==
    [i EXCEPT !.state = "Idle", !.time_remaining = None,
              !.start_time = None, !.pause_time = None]

\* Stop that forgets to clear time_remaining.
StopInfo_KeepsRemaining(i) ==
    [i EXCEPT !.state = "Idle", !.current_phase = None,
              !.start_time = None, !.pause_time = None]

\* TimerCommand::Stop
StopInfo(i) ==
    [i EXCEPT !.state = "Idle", !.current_phase = None, !.time_remaining = None,
              !.start_time = None, !.pause_time = None]

\* A tick that counts down whenever there is a time_remaining, Paused included.
CountsDown_WhilePaused(i) == i.state \in {"Running", "Paused"} /\ IsSome(i.time_remaining)

\* The tick touches the snapshot: the state is Running and time_remaining is Some.
CountsDown(i) == i.state = "Running" /\ IsSome(i.time_remaining)

\* Exhaustion found only at zero (> 0 for > 1).
PhaseExhausted_AtZero(i) == ~(Get(i.time_remaining) > 0)

\* The tick finds the phase exhausted: not (remaining > Duration::seconds(1)).
PhaseExhausted(i) == ~(Get(i.time_remaining) > 1)

\* A countdown that forgets to count the elapsed second.
CountdownInfo_NoElapsed(i) ==
    IF ~PhaseExhausted(i)
    THEN [i EXCEPT !.time_remaining = Some(Get(i.time_remaining) - 1)]
    ELSE [i EXCEPT !.time_remaining = None]

\* The tick's first lock scope, when Running with a time_remaining.
CountdownInfo(i) ==
    IF ~PhaseExhausted(i)
    THEN [i EXCEPT !.time_remaining = Some(Get(i.time_remaining) - 1),
                   !.elapsed_time = i.elapsed_time + 1]
    ELSE [i EXCEPT !.time_remaining = None]

\* A tick that saves every time.
CountdownSaves_Always(i) == TRUE

\* Whether the tick's first lock scope saves the snapshot it leaves.
CountdownSaves(i) ==
    IF ~PhaseExhausted(i)
    THEN (i.elapsed_time + 1) % SaveEvery = 0
    ELSE TRUE

\* Entering a phase without resetting elapsed_time.
EnterPhase_KeepsElapsed(i, next_phase) ==
    [i EXCEPT !.current_phase = Some(next_phase),
              !.time_remaining = Some(Minutes(next_phase.duration))]

\* Entering a phase: shared by the tick's transition and Skip.
EnterPhase(i, next_phase) ==
    [i EXCEPT !.current_phase = Some(next_phase),
              !.time_remaining = Some(Minutes(next_phase.duration)),
              !.elapsed_time = 0]

\* Transition that ignores workflow.repeatable at the last phase.
TransitionOutcome_NoWrap(i) ==
    IF IsSome(i.current_workflow) /\ IsSome(i.current_phase)
    THEN LET workflow == Get(i.current_workflow)
             current_index == position(workflow.phases, Get(i.current_phase).name)
         IN  IF current_index # 0
             THEN IF current_index + 1 <= Len(workflow.phases) THEN "next" ELSE "completed"
             ELSE "notfound"
    ELSE "nothing"

\* The tick's second lock scope: outcome "next", "wrap", "completed",
\* "notfound" or "nothing" and the snapshot it leaves.
TransitionOutcome(i) ==
    IF IsSome(i.current_workflow) /\ IsSome(i.current_phase)
    THEN LET workflow == Get(i.current_workflow)
             current_index == position(workflow.phases, Get(i.current_phase).name)
         IN  IF current_index # 0
             THEN IF current_index + 1 <= Len(workflow.phases)
                  THEN "next"
                  ELSE IF workflow.repeatable THEN "wrap" ELSE "completed"
             ELSE "notfound"
    ELSE "nothing"

\* Transition whose end-of-workflow branch forgets to clear current_phase.
TransitionInfo_KeepsPhase(i) ==
    LET outcome == TransitionOutcome(i)
    IN  CASE outcome = "next" ->
               LET workflow == Get(i.current_workflow)
                   current_index == position(workflow.phases, Get(i.current_phase).name)
               IN  EnterPhase(i, workflow.phases[current_index + 1])
          [] outcome = "wrap" ->
               EnterPhase(i, Get(i.current_workflow).phases[1])
          [] outcome = "completed" ->
               [i EXCEPT !.state = "Completed", !.time_remaining = None]
          [] outcome = "notfound" ->
               [i EXCEPT !.state = "Idle", !.current_phase = None,
                         !.time_remaining = None]
          [] OTHER -> [i EXCEPT !.state = "Idle"]

TransitionInfo(i) ==
    LET outcome == TransitionOutcome(i)
    IN  CASE outcome = "next" ->
               LET workflow == Get(i.current_workflow)
                   current_index == position(workflow.phases, Get(i.current_phase).name)
               IN  EnterPhase(i, workflow.phases[current_index + 1])
          [] outcome = "wrap" ->
               EnterPhase(i, Get(i.current_workflow).phases[1])
          [] outcome = "completed" ->
               [i EXCEPT !.state = "Completed", !.current_phase = None,
                         !.time_remaining = None]
          [] outcome = "notfound" ->
               [i EXCEPT !.state = "Idle", !.current_phase = None,
                         !.time_remaining = None]
          [] OTHER -> [i EXCEPT !.state = "Idle"]

\* TimerCommand::Skip: outcome "ignored", "next", "completed" or "nothing".
SkipOutcome(i) ==
    IF ~(i.state = "Running" \/ i.state = "Paused")
    THEN "ignored"
    ELSE IF IsSome(i.current_workflow) /\ IsSome(i.current_phase)
         THEN LET workflow == Get(i.current_workflow)
                  current_index == position(workflow.phases, Get(i.current_phase).name)
              IN  IF current_index # 0
                  THEN IF current_index + 1 <= Len(workflow.phases)
                       THEN "next"
                       ELSE "completed"
                  ELSE "nothing"
         ELSE "nothing"

SkipInfo(i) ==
    LET outcome == SkipOutcome(i)
    IN  CASE outcome = "next" ->
               LET workflow == Get(i.current_workflow)
                   current_index == position(workflow.phases, Get(i.current_phase).name)
                   entered == EnterPhase(i, workflow.phases[current_index + 1])
               IN  IF i.state = "Paused"
                   THEN [entered EXCEPT !.state = "Running", !.pause_time = None]
                   ELSE entered
          [] outcome = "completed" ->
               [i EXCEPT !.state = "Completed", !.current_phase = None,
                         !.time_remaining = None]
          [] OTHER -> i

-----------------------------------------------------------------------------
(* The workflow and status catalogs (workflow.rs, status.rs) and the text of *)
(* a `workflow add` phase list.  A text is a sequence of one-character       *)
(* strings.                                                                  *)

\* str.split(sep): at least one piece, an empty one where separators meet.
RECURSIVE SplitOn(_, _)
SplitOn(s, sep) ==
    LET hits == {k \in 1..Len(s) : s[k] = sep}
    IN  IF hits = {}
        THEN <<s>>
        ELSE LET k == CHOOSE h \in hits : \A j \in hits : h <= j
             IN  <<SubSeq(s, 1, k - 1)>> \o SplitOn(SubSeq(s, k + 1, Len(s)), sep)

RECURSIVE TrimStart(_)
TrimStart(s) == IF s # <<>> /\ Head(s) = " " THEN TrimStart(Tail(s)) ELSE s

RECURSIVE TrimEnd(_)
TrimEnd(s) ==
    IF s # <<>> /\ s[Len(s)] = " " THEN TrimEnd(SubSeq(s, 1, Len(s) - 1)) ELSE s

\* str.trim(), for the space character
Trim(s) == TrimEnd(TrimStart(s))

\* The String of a text.
RECURSIVE Str(_)
Str(s) == IF s = <<>> THEN "" ELSE Head(s) \o Str(Tail(s))

Digits == <<"0", "1", "2", "3", "4", "5", "6", "7", "8", "9">>

DigitValue(c) == (CHOOSE k \in 1..Len(Digits) : Digits[k] = c) - 1

RECURSIVE DigitsValue(_)
DigitsValue(s) ==
    IF s = <<>> THEN 0
    ELSE DigitsValue(SubSeq(s, 1, Len(s) - 1)) * Len(Digits) + DigitValue(s[Len(s)])

\* str.parse::<u32>(): an optional "+", then one digit or more (the texts
\* submitted are too short to overflow a u32).
ParseU32(s) ==
    LET digits == IF s # <<>> /\ Head(s) = "+" THEN Tail(s) ELSE s
    IN  IF digits # <<>> /\ \A k \in 1..Len(digits) : \E d \in 1..Len(Digits) : digits[k] = Digits[d]
        THEN Some(DigitsValue(digits))
        ELSE None

Ok(phases) == [ok |-> TRUE, phases |-> phases, err |-> ""]

Err(err) == [ok |-> FALSE, phases |-> <<>>, err |-> err]

\* The loop of parse_phases over the pieces, and its check after the loop.
RECURSIVE ParseParts(_, _)
ParseParts(parts, phases) ==
    IF parts = <<>>
    THEN IF phases = <<>> THEN Err("No phases provided") ELSE Ok(phases)
    ELSE LET phase_parts == SplitOn(Trim(Head(parts)), ":")
         IN  IF Len(phase_parts) # 2
             THEN Err("Invalid phase format, use 'name:duration'")
             ELSE LET name == Str(Trim(phase_parts[1]))
                      duration == ParseU32(Trim(phase_parts[2]))
                  IN  IF IsSome(duration)
                      THEN ParseParts(Tail(parts), Append(phases, Phase(name, Get(duration))))
                      ELSE Err("Invalid duration, must be a positive integer")

\* Workflow::parse_phases
parse_phases(phases_str) == ParseParts(SplitOn(phases_str, ","), <<>>)

\* StatusManager::new: the statuses every process knows.
StatusCatalog == {"work", "study", "chilling"}

\* StatusManager::get_status
get_status(name) == IF name \in StatusCatalog THEN Some(name) ELSE None

\* WorkflowManager::get_workflow (the catalog is keyed by workflow name)
get_workflow(name) ==
    LET hits == {w \in workflows : w.name = name}
    IN  IF hits = {} THEN None ELSE Some(CHOOSE w \in hits : TRUE)

\* Config::default(): default_workflow and default_status
DefaultWorkflowName == "Default Pomodoro"

DefaultStatusName == "work"

\* Catalogs that load_workflows reads from a workflows.json: it takes any
\* map of workflows that deserializes, a workflow with "phases": [] included.
Empty == Workflow("Empty", <<>>, TRUE)

QuickDefault == Workflow("Default Pomodoro", <<Phase("Work", 1)>>, FALSE)

FileCatalogs == {{Once, Empty}, {Once, QuickDefault}}

-----------------------------------------------------------------------------
(* The persistence bridge *)

\* persistence::update: the STATE global takes the record, then state.json is written.
Persist(i) ==
    /\ persistent_state' = save_timer_state(i)
    /\ file' = IF diskOk THEN save_timer_state(i) ELSE file

NoPersist == UNCHANGED <<persistent_state, file>>

-----------------------------------------------------------------------------
(* Initial state: a first run, with no state.json; persistence::init writes *)
(* the default record and Timer::new reads it.                              *)

Init ==
    /\ persistent_state = DefaultState
    /\ file = DefaultState
    /\ diskOk = TRUE
    /\ info = TimerNew(DefaultState)
    /\ command_rx = <<>>
    /\ loopAlive = TRUE
    /\ pc = "select"
    /\ last = [input |-> "New", from |-> "Idle", event |-> "none"]
    /\ rejected = "none"
    /\ phaseTicks = -1
    /\ workflows = DefaultWorkflows

-----------------------------------------------------------------------------
(* History bookkeeping *)

Handled(input, event) == last' = [input |-> input, from |-> info.state, event |-> event]

-----------------------------------------------------------------------------
(* Timer::send_command: enqueue, waiting while the channel is full; an error *)
(* once timer_logic_task has returned and dropped the receiver.              *)

send_command(command) ==
    /\ IF loopAlive
       THEN /\ Len(command_rx) < MaxQueue
            /\ command_rx' = Append(command_rx, command)
            /\ rejected' = "none"
       ELSE /\ rejected' = command.kind
            /\ UNCHANGED command_rx
    /\ UNCHANGED <<info, persistent_state, file, diskOk, loopAlive, pc, last, phaseTicks, workflows>>

-----------------------------------------------------------------------------
(* timer_logic_task, the interval.tick() branch *)

\* First lock scope: count down, or find the phase exhausted.
Tick ==
    /\ loopAlive
    /\ pc = "select"
    /\ IF CountsDown(info)
       THEN /\ info' = CountdownInfo(info)
            /\ IF CountdownSaves(info) THEN Persist(info') ELSE NoPersist
            /\ pc' = IF PhaseExhausted(info) THEN "advance" ELSE "select"
            /\ phaseTicks' = IF phaseTicks >= 0 THEN phaseTicks + 1 ELSE phaseTicks
       ELSE /\ UNCHANGED <<info, pc, phaseTicks>>
            /\ NoPersist
    /\ Handled("Tick", "none")
    /\ UNCHANGED <<diskOk, command_rx, loopAlive, rejected, workflows>>

\* Second lock scope (update_needed): the phase transition.  The three
\* branches that end in `return` end the task.
PhaseTransition ==
    /\ loopAlive
    /\ pc = "advance"
    /\ info' = TransitionInfo(info)
    /\ Persist(info')
    /\ pc' = "select"
    /\ loopAlive' = (TransitionOutcome(info) \in {"next", "wrap"})
    /\ phaseTicks' = IF TransitionOutcome(info) \in {"next", "wrap"} /\ phaseTicks >= 0
                     THEN 0 ELSE -1
    /\ Handled("PhaseTransition",
               IF TransitionOutcome(info) \in {"next", "wrap"} THEN "PhaseChanged" ELSE "none")
    /\ UNCHANGED <<diskOk, command_rx, rejected, workflows>>

-----------------------------------------------------------------------------
(* timer_logic_task, the command_rx.recv() branch *)

\* A receive that does not wait for the tick in progress to finish.
Receives_AnyTime(kind) ==
    /\ loopAlive
    /\ command_rx # <<>>
    /\ Head(command_rx).kind = kind
    /\ command_rx' = Tail(command_rx)

Receives(kind) ==
    /\ loopAlive
    /\ pc = "select"
    /\ command_rx # <<>>
    /\ Head(command_rx).kind = kind
    /\ command_rx' = Tail(command_rx)

Start ==
    /\ Receives("Start")
    /\ info' = StartInfo(info, Head(command_rx).workflow, Head(command_rx).status)
    /\ Persist(info')
    /\ phaseTicks' = 0
    /\ Handled("Start", "Started")
    /\ UNCHANGED <<diskOk, loopAlive, pc, rejected, workflows>>

\* Pause that does not look at the state.
Pause_Always ==
    /\ Receives("Pause")
    /\ info' = PauseInfo(info)
    /\ Persist(info')
    /\ Handled("Pause", "Paused")
    /\ phaseTicks' = -1
    /\ UNCHANGED <<diskOk, loopAlive, pc, rejected, workflows>>

Pause ==
    /\ Receives("Pause")
    /\ IF info.state = "Running"
       THEN /\ info' = PauseInfo(info)
            /\ Persist(info')
            /\ Handled("Pause", "Paused")
       ELSE /\ UNCHANGED info
            /\ NoPersist
            /\ Handled("Pause", "none")
    /\ phaseTicks' = -1
    /\ UNCHANGED <<diskOk, loopAlive, pc, rejected, workflows>>

\* Resume that does not look at the state.
Resume_Always ==
    /\ Receives("Resume")
    /\ info' = ResumeInfo(info)
    /\ Persist(info')
    /\ Handled("Resume", "Resumed")
    /\ phaseTicks' = -1
    /\ UNCHANGED <<diskOk, loopAlive, pc, rejected, workflows>>

Resume ==
    /\ Receives("Resume")
    /\ IF info.state = "Paused"
       THEN /\ info' = ResumeInfo(info)
            /\ Persist(info')
            /\ Handled("Resume", "Resumed")
       ELSE /\ UNCHANGED info
            /\ NoPersist
            /\ Handled("Resume", "none")
    /\ phaseTicks' = -1
    /\ UNCHANGED <<diskOk, loopAlive, pc, rejected, workflows>>

\* Stop that gives up its transition when the write to state.json fails.
Stop_AbortsOnFailure ==
    /\ Receives("Stop")
    /\ info' = IF diskOk THEN StopInfo(info) ELSE info
    /\ Persist(info')
    /\ Handled("Stop", "Stopped")
    /\ phaseTicks' = -1
    /\ UNCHANGED <<diskOk, loopAlive, pc, rejected, workflows>>

Stop ==
    /\ Receives("Stop")
    /\ info' = StopInfo(info)
    /\ Persist(info')
    /\ Handled("Stop", "Stopped")
    /\ phaseTicks' = -1
    /\ UNCHANGED <<diskOk, loopAlive, pc, rejected, workflows>>

Skip ==
    /\ Receives("Skip")
    /\ info' = SkipInfo(info)
    /\ IF SkipOutcome(info) \in {"next", "completed"} THEN Persist(info') ELSE NoPersist
    /\ Handled("Skip",
               CASE SkipOutcome(info) = "next" -> "PhaseChanged"
                 [] SkipOutcome(info) = "completed" -> "Completed"
                 [] OTHER -> "none")
    /\ phaseTicks' = -1
    /\ UNCHANGED <<diskOk, loopAlive, pc, rejected, workflows>>

-----------------------------------------------------------------------------
(* The process ends and a new one starts: persistence::init reads state.json *)
(* into STATE, Timer::new builds the snapshot from it and spawns the loop.   *)

Restart ==
    /\ persistent_state' = file
    /\ info' = TimerNew(file)
    /\ command_rx' = <<>>
    /\ loopAlive' = TRUE
    /\ pc' = "select"
    /\ last' = [input |-> "New", from |-> info.state, event |-> "none"]
    /\ rejected' = "none"
    /\ phaseTicks' = -1
    /\ UNCHANGED <<file, diskOk, workflows>>

-----------------------------------------------------------------------------
(* Specifications *)

Next ==
    \/ \E command \in Commands : send_command(command)
    \/ Tick
    \/ PhaseTransition
    \/ Start
    \/ Pause
    \/ Resume
    \/ Stop
    \/ Skip
    \/ Restart

Spec == Init /\ [][Next]_vars

\* A Start submitted to a fresh engine, then nothing but ticks, each branch
\* of the select! loop taken when it stays ready.
TicksInit ==
    /\ persistent_state = DefaultState
    /\ file = DefaultState
    /\ diskOk = TRUE
    /\ info = TimerNew(DefaultState)
    /\ command_rx \in {<<command>> : command \in StartCommands}
    /\ loopAlive = TRUE
    /\ pc = "select"
    /\ last = [input |-> "New", from |-> "Idle", event |-> "none"]
    /\ rejected = "none"
    /\ phaseTicks = -1
    /\ workflows = DefaultWorkflows

TicksNext ==
    \/ Start
    \/ Tick
    \/ PhaseTransition

SpecTicks ==
    /\ TicksInit
    /\ [][TicksNext]_vars
    /\ WF_vars(Start)
    /\ WF_vars(Tick)
    /\ WF_vars(PhaseTransition)

\* state.json stops or starts being writable (fs::write in save_state fails
\* or succeeds), at any moment.
DiskChanges ==
    /\ diskOk' = ~diskOk
    /\ UNCHANGED <<info, persistent_state, file, command_rx, loopAlive, pc, last,
                   rejected, phaseTicks, workflows>>

-----------------------------------------------------------------------------
(* The caller layer (main.rs): each command looks its names up in the        *)
(* catalogs and returns an error, or submits to the engine.                  *)

\* main returns Err(err): nothing is submitted.
Fails(err) ==
    /\ rejected' = err
    /\ UNCHANGED <<info, persistent_state, file, diskOk, command_rx, loopAlive, pc, last,
                   phaseTicks, workflows>>

\* Start that falls back to Workflow::default() for a name it does not find.
CliStart_FallsBack(workflow, status) ==
    LET found == get_workflow(IF IsSome(workflow) THEN Get(workflow) ELSE DefaultWorkflowName)
        status_obj == get_status(IF IsSome(status) THEN Get(status) ELSE DefaultStatusName)
    IN  send_command(Command("Start",
                             IF IsSome(found) THEN found ELSE Some(DefaultWorkflow),
                             IF IsSome(status_obj) THEN status_obj ELSE Some(DefaultStatus)))

\* Commands::Start { workflow, status }
CliStart(workflow, status) ==
    LET workflow_obj ==
            get_workflow(IF IsSome(workflow) THEN Get(workflow) ELSE DefaultWorkflowName)
        status_obj == get_status(IF IsSome(status) THEN Get(status) ELSE DefaultStatusName)
    IN  IF workflow_obj = None
        THEN Fails(IF IsSome(workflow) THEN "Workflow not found"
                                       ELSE "Default workflow not found")
        ELSE IF status_obj = None
             THEN Fails(IF IsSome(status) THEN "Status not found"
                                          ELSE "Default status not found")
             ELSE send_command(Command("Start", workflow_obj, status_obj))

\* Commands::Status { name }: a Start of the snapshot's current workflow.
CliStatus(name) ==
    IF IsSome(get_status(name))
    THEN send_command(Command("Start", info.current_workflow, get_status(name)))
    ELSE Fails("Status not found")

\* WorkflowCommands::Add { name, phases }, with WorkflowManager::add_workflow
CliAddWorkflow(name, phases) ==
    LET parsed == parse_phases(phases)
    IN  IF ~parsed.ok
        THEN Fails(parsed.err)
        ELSE IF IsSome(get_workflow(name))
             THEN Fails("Workflow with this name already exists")
             ELSE /\ workflows' = workflows \cup {Workflow(name, parsed.phases, TRUE)}
                  /\ rejected' = "none"
                  /\ UNCHANGED <<info, persistent_state, file, diskOk, command_rx,
                                 loopAlive, pc, last, phaseTicks>>

\* What the caller layer is given: names in and out of the catalogs, and
\* phase lists well and ill formed.
WorkflowNames == {"Once", "Empty", "Fresh", "Gone"}

StatusNames == {"study", "nap"}

PhaseTexts ==
    {<<"a", ":", "0">>,
     <<"a", ":", "0", ",", " ", "b", ":", "+", "1">>,
     <<>>,
     <<"a", ":", "0", ",">>,
     <<"a", ":", "x">>}

\* A process whose catalog came from a workflows.json.  Its engine is
\* followed as far as taking Start commands off the channel.
CatalogInit ==
    /\ persistent_state = DefaultState
    /\ file = DefaultState
    /\ diskOk = TRUE
    /\ info = TimerNew(DefaultState)
    /\ command_rx = <<>>
    /\ loopAlive = TRUE
    /\ pc = "select"
    /\ last = [input |-> "New", from |-> "Idle", event |-> "none"]
    /\ rejected = "none"
    /\ phaseTicks = -1
    /\ workflows \in FileCatalogs

CatalogNext ==
    \/ \E workflow \in {None} \cup {Some(n) : n \in WorkflowNames},
          status \in {None} \cup {Some(n) : n \in StatusNames} : CliStart(workflow, status)
    \/ \E name \in StatusNames : CliStatus(name)
    \/ \E name \in {"Once", "Fresh"}, phases \in PhaseTexts : CliAddWorkflow(name, phases)
    \/ Start

SpecCatalog == CatalogInit /\ [][CatalogNext]_vars

\* The engine given a workflow without phases, as the catalog can deliver it.
EmptyCommands ==
    {Command("Start", Some(Once), Some("work")), Command("Start", Some(Empty), Some("work")),
     Command("Skip", None, None), Command("Stop", None, None)}

EmptyNext ==
    \/ \E command \in EmptyCommands : send_command(command)
    \/ Tick
    \/ PhaseTransition
    \/ Start
    \/ Skip
    \/ Stop

SpecEmpty == Init /\ [][EmptyNext]_vars

\* The commands submitted while the disk comes and goes.
DiskCommands ==
    {Command("Start", Some(Blitz), Some("work"))}
        \cup {Command(k, None, None) : k \in {"Pause", "Resume", "Stop", "Skip"}}

DiskNext ==
    \/ \E command \in DiskCommands : send_command(command)
    \/ Tick
    \/ PhaseTransition
    \/ Start
    \/ Pause
    \/ Resume
    \/ Stop
    \/ Skip
    \/ Restart
    \/ DiskChanges

SpecDisk == Init /\ [][DiskNext]_vars

\* A session that is paused and resumed, in a process that may end and be
\* started again, the loop taking its inputs fairly.
ResumeCommands ==
    {Command("Start", Some(Once), Some("work"))}
        \cup {Command(k, None, None) : k \in {"Pause", "Resume"}}

ResumeNext ==
    \/ \E command \in ResumeCommands : send_command(command)
    \/ Tick
    \/ PhaseTransition
    \/ Start
    \/ Pause
    \/ Resume
    \/ Restart

SpecResume ==
    /\ Init
    /\ [][ResumeNext]_vars
    /\ WF_vars(Tick)
    /\ WF_vars(PhaseTransition)
    /\ WF_vars(Start)
    /\ WF_vars(Pause)
    /\ WF_vars(Resume)

\* Workflows added with `workflow add` and then run: one phase list with
\* distinct names, one that repeats a name.
AddedNames == {"Fresh", "Second"}

AddedTexts ==
    {<<"a", ":", "0", ",", "b", ":", "0">>,
     <<"a", ":", "0", ",", "a", ":", "0", ",", "b", ":", "0">>}

AddedNext ==
    \/ \E name \in AddedNames, phases \in AddedTexts : CliAddWorkflow(name, phases)
    \/ \E name \in AddedNames : CliStart(Some(name), None)
    \/ Start
    \/ Tick
    \/ PhaseTransition

SpecAdded ==
    /\ Init
    /\ [][AddedNext]_vars
    /\ WF_vars(Start)
    /\ WF_vars(Tick)
    /\ WF_vars(PhaseTransition)

-----------------------------------------------------------------------------
(* Steps of the loop, as seen from outside *)

\* The loop takes a command of this kind off the channel and handles it.
Handles(kind) ==
    /\ loopAlive
    /\ pc = "select"
    /\ command_rx # <<>>
    /\ Head(command_rx).kind = kind
    /\ command_rx' = Tail(command_rx)
    /\ last'.input = kind

\* The persisted record, in STATE and in state.json, mirrors the snapshot i.
Persisted(i) ==
    /\ persistent_state.timer_state = i.state
    /\ persistent_state.current_phase = i.current_phase
    /\ persistent_state.current_workflow = i.current_workflow
    /\ persistent_state.current_status = i.current_status
    /\ persistent_state.start_time = i.start_time
    /\ persistent_state.elapsed_seconds = i.elapsed_time
    /\ file = persistent_state

-----------------------------------------------------------------------------
(* C1 *)

-----------------------------------------------------------------------------
(* C2 *)

\* C2: a Start{w,s} handled in any state leaves the snapshot Running with
\* current_workflow = w, current_status = s, current_phase = w.phases[0],
\* time_remaining = that phase's duration, elapsed_time = 0 and start_time
\* set, and the persisted record holds the same values.
C2_StartResult ==
    [][Handles("Start") =>
        LET w == Get(Head(command_rx).workflow)
            s == Get(Head(command_rx).status)
        IN  /\ info'.state = "Running"
            /\ info'.current_workflow = Some(w)
            /\ info'.current_status = Some(s)
            /\ info'.current_phase = Some(w.phases[1])
            /\ info'.time_remaining = Some(Minutes(w.phases[1].duration))
            /\ info'.elapsed_time = 0
            /\ IsSome(info'.start_time)
            /\ persistent_state'.timer_state = "Running"
            /\ persistent_state'.current_workflow = Some(w)
            /\ persistent_state'.current_status = Some(s)
            /\ persistent_state'.current_phase = Some(w.phases[1])
            /\ persistent_state'.elapsed_seconds = 0
            /\ persistent_state'.start_time = info'.start_time
            /\ file' = persistent_state']_vars

C2_Witness ==
    /\ last.input = "Start"
    /\ last.from = "Completed"
    /\ info.state = "Running"
    /\ info.elapsed_time = 0
    /\ Persisted(info)

-----------------------------------------------------------------------------
(* C3 *)

\* C3: once the engine is Completed, by tick exhaustion or by Skip, a Start
\* submitted afterwards is accepted and the loop is there to handle it.
C3_StartAfterCompleted ==
    info.state = "Completed" => (loopAlive /\ rejected # "Start")

-----------------------------------------------------------------------------
(* C4 *)

\* C4: every command that was enqueued has a running loop to handle it: the
\* loop never stops servicing its channel.
C4_EnqueuedIsServed ==
    command_rx # <<>> => loopAlive

-----------------------------------------------------------------------------
(* C5 *)

\* C5: a Stop submitted in any state is accepted, and handling it leaves the
\* snapshot Idle with current_phase, time_remaining, start_time and
\* pause_time None, and that snapshot persisted.
C5_StopFromAnyState ==
    /\ rejected # "Stop"
    /\ last.input = "Stop" =>
        /\ info.state = "Idle"
        /\ info.current_phase = None
        /\ info.time_remaining = None
        /\ info.start_time = None
        /\ info.pause_time = None
        /\ Persisted(info)

-----------------------------------------------------------------------------
(* Phases of the current workflow, by their place in the list *)

HasPhase(i) == IsSome(i.current_workflow) /\ IsSome(i.current_phase)

PhasesOf(i) == Get(i.current_workflow).phases

\* The place of the current phase in the list.
IndexOf(i) == CHOOSE k \in 1..Len(PhasesOf(i)) : PhasesOf(i)[k] = Get(i.current_phase)

HasNext(i) == HasPhase(i) /\ IndexOf(i) < Len(PhasesOf(i))

IsLast(i) == HasPhase(i) /\ IndexOf(i) = Len(PhasesOf(i))

Repeatable(i) == IsSome(i.current_workflow) /\ Get(i.current_workflow).repeatable

\* The snapshot i is Running at the start of phase p.
RunningAtStartOf(i, p) ==
    /\ i.state = "Running"
    /\ i.current_phase = Some(p)
    /\ i.time_remaining = Some(Minutes(p.duration))
    /\ i.elapsed_time = 0

\* The tick that counts or exhausts, and the transition that follows an
\* exhausting tick, with nothing but ticks handled since Start.
CountingTick ==
    /\ phaseTicks >= 0
    /\ pc = "select"
    /\ last'.input = "Tick"
    /\ phaseTicks' # phaseTicks

TransitionStep ==
    /\ pc = "advance"
    /\ last'.input = "PhaseTransition"

\* Ticks a phase of d minutes takes: 60 * d, but one tick for d = 0.
AtLeastOneTick(d) == IF d = 0 THEN 1 ELSE Minutes(d)

\* Under ticks alone a phase that has a successor takes lasts(d) ticks, not
\* fewer, and the last of them leaves the engine Running at the start of the
\* next phase of the list.
PhaseLasts(lasts(_)) ==
    LET d == Get(info.current_phase).duration
    IN  /\ (CountingTick /\ HasNext(info)) =>
               IF phaseTicks' < lasts(d)
               THEN pc' = "select" /\ info'.current_phase = info.current_phase
               ELSE pc' = "advance"
        /\ (TransitionStep /\ phaseTicks >= 0 /\ HasNext(info)) =>
               /\ phaseTicks = lasts(d)
               /\ RunningAtStartOf(info', PhasesOf(info)[IndexOf(info) + 1])

-----------------------------------------------------------------------------
(* C6 *)

-----------------------------------------------------------------------------
(* C7 *)

\* C7: after Start of a repeatable workflow and ticks alone, exhausting the
\* last phase (the only one, when there is one) leaves the engine Running at
\* the start of phases[0]; the state is Running throughout and never Completed.
C7_RepeatableWraps ==
    [][/\ (TransitionStep /\ phaseTicks >= 0 /\ Repeatable(info) /\ IsLast(info)) =>
              RunningAtStartOf(info', PhasesOf(info)[1])
       /\ (phaseTicks' >= 0 /\ Repeatable(info')) =>
              (info'.state = "Running" /\ loopAlive')]_vars

C7_Witness ==
    /\ last.input = "PhaseTransition"
    /\ phaseTicks = 0
    /\ info.current_workflow = Some(Loop)
    /\ RunningAtStartOf(info, Loop.phases[1])

-----------------------------------------------------------------------------
(* C8 *)

CompletedAndPersisted ==
    /\ info.state = "Completed"
    /\ info.current_phase = None
    /\ info.time_remaining = None
    /\ Persisted(info)

\* The step into Completed is the one that follows the lasts(d)-th tick of
\* the last phase.
CompletionFollows(lasts(_)) ==
    (TransitionStep /\ info'.state = "Completed") =>
        /\ IsLast(info)
        /\ phaseTicks = lasts(Get(info.current_phase).duration)

-----------------------------------------------------------------------------
(* C9 *)

\* What tick exhaustion of the current phase leaves, from a snapshot taken as
\* Running: the first lock scope's exhaustion, then the transition.
TickExhaustion(i) ==
    TransitionInfo([i EXCEPT !.state = "Running", !.time_remaining = None])

\* C9: a Skip handled while Running or Paused leaves the state, current_phase,
\* time_remaining and elapsed_time that tick exhaustion of the current phase
\* leaves from the same snapshot, wherever the phase is in the list.
C9_SkipAsTickExhaustion ==
    [][(Handles("Skip") /\ info.state \in {"Running", "Paused"}) =>
          /\ info'.state = TickExhaustion(info).state
          /\ info'.current_phase = TickExhaustion(info).current_phase
          /\ info'.time_remaining = TickExhaustion(info).time_remaining
          /\ info'.elapsed_time = TickExhaustion(info).elapsed_time]_vars

-----------------------------------------------------------------------------
(* C10 *)

\* C10: a Skip handled while Paused on a repeatable workflow leaves the
\* engine Running at the start of the successor of the current phase
\* (phases[0] after the last), with pause_time None.
C10_SkipWhilePaused ==
    [][(Handles("Skip") /\ info.state = "Paused" /\ HasPhase(info) /\ Repeatable(info)) =>
          /\ RunningAtStartOf(info', PhasesOf(info)[(IndexOf(info) % Len(PhasesOf(info))) + 1])
          /\ info'.pause_time = None]_vars

-----------------------------------------------------------------------------
(* C11 *)

\* The loop handles a tick (its first lock scope).
HandlesTick ==
    /\ loopAlive
    /\ pc = "select"
    /\ last'.input = "Tick"
    /\ UNCHANGED <<command_rx, rejected>>

\* C11: a tick handled while the state is Paused leaves the whole snapshot,
\* elapsed_time and time_remaining included, unchanged and writes nothing to
\* the persisted record; so does any number of them.
C11_PausedTicksChangeNothing ==
    [][(HandlesTick /\ info.state = "Paused") =>
          UNCHANGED <<info, persistent_state, file, pc>>]_vars

C11_Witness ==
    /\ last.input = "Tick"
    /\ last.from = "Paused"
    /\ info.state = "Paused"
    /\ IsSome(info.time_remaining)
    /\ info.elapsed_time > 0
    /\ persistent_state.elapsed_seconds = info.elapsed_time

-----------------------------------------------------------------------------
(* C12 *)

\* The step changes neither the snapshot nor the persisted record and sends
\* no event.
Ignored ==
    /\ UNCHANGED <<info, persistent_state, file>>
    /\ last'.event = "none"

\* C12: a Pause handled right after another Pause changes nothing: the
\* snapshot (pause_time included) and the persisted record stay what the
\* first Pause left, and no second event is sent.
C12_PauseIdempotent ==
    [][(Handles("Pause") /\ last.input = "Pause") => Ignored]_vars

C12_Witness ==
    /\ last = [input |-> "Pause", from |-> "Paused", event |-> "none"]
    /\ info.state = "Paused"
    /\ IsSome(info.pause_time)
    /\ Persisted(info)

-----------------------------------------------------------------------------
(* C13 *)

\* C13: a Pause handled when the state is not Running, a Resume handled when
\* it is not Paused and a Skip handled in Idle or Completed leave the whole
\* snapshot and the persisted record unchanged and send no event.
C13_InapplicableIgnored ==
    [][/\ (Handles("Pause") /\ info.state # "Running") => Ignored
       /\ (Handles("Resume") /\ info.state # "Paused") => Ignored
       /\ (Handles("Skip") /\ info.state \in {"Idle", "Completed"}) => Ignored]_vars

C13_Witness ==
    /\ last = [input |-> "Resume", from |-> "Completed", event |-> "none"]
    /\ info.state = "Completed"
    /\ loopAlive

-----------------------------------------------------------------------------
(* C14 *)

\* The loop writes the persisted record in this step.
Saves ==
    /\ last'.input # "New"
    /\ (persistent_state' # persistent_state \/ file' # file)

\* The fields that survive a save and a reload.
SameSaved(i, j) ==
    /\ i.state = j.state
    /\ i.current_phase = j.current_phase
    /\ i.current_workflow = j.current_workflow
    /\ i.current_status = j.current_status
    /\ i.start_time = j.start_time
    /\ i.elapsed_time = j.elapsed_time

\* C14: whenever the engine saves its snapshot, the snapshot Timer::new
\* builds from the record in state.json has the same state, current_phase,
\* current_workflow, current_status, start_time and elapsed_time.
C14_RoundTrip ==
    [][Saves => SameSaved(TimerNew(file'), info')]_vars

C14_Witness ==
    /\ last.input = "New"
    /\ info.state = "Paused"
    /\ info.elapsed_time > 0
    /\ IsSome(info.start_time)
    /\ IsSome(info.current_phase)
    /\ file # DefaultState
    /\ SameSaved(TimerNew(file), info)

-----------------------------------------------------------------------------
(* C15 *)

Max0(n) == IF n > 0 THEN n ELSE 0

\* C15: an engine just started from a persisted record that has a current
\* phase has time_remaining = max(0, phase.duration - persisted elapsed),
\* whatever the record's timer_state, last_saved and start_time.
C15_ReloadRecomputesRemaining ==
    (last.input = "New" /\ IsSome(persistent_state.current_phase)) =>
        info.time_remaining =
            Some(Max0(Minutes(Get(persistent_state.current_phase).duration)
                      - persistent_state.elapsed_seconds))

-----------------------------------------------------------------------------
(* C16 *)

\* C16: get_info takes the lock between any two steps of the loop, so it can
\* return the snapshot any step leaves.  Where a step leaves the loop partway
\* through an input (the tick's first lock scope, with the transition still
\* to come), that snapshot is the one before the input or the one the
\* completed input leaves.
C16_ReadsSeeWholeInputs ==
    [][(pc = "select" /\ pc' = "advance") =>
          (info' = info \/ info' = TransitionInfo(info'))]_vars

-----------------------------------------------------------------------------
(* C17 *)

\* The snapshot the handler of command c leaves from snapshot i.
Applied(c, i) ==
    CASE c.kind = "Start" -> StartInfo(i, c.workflow, c.status)
      [] c.kind = "Pause" -> IF i.state = "Running" THEN PauseInfo(i) ELSE i
      [] c.kind = "Resume" -> IF i.state = "Paused" THEN ResumeInfo(i) ELSE i
      [] c.kind = "Stop" -> StopInfo(i)
      [] c.kind = "Skip" -> SkipInfo(i)

\* Within one process the channel changes only by a submitter appending at
\* the tail or by the loop taking the head and applying it to the snapshot.
InEnqueueOrder ==
    (command_rx' # command_rx /\ last'.input # "New") =>
        \/ \E c \in Commands : command_rx' = Append(command_rx, c)
        \/ /\ command_rx # <<>>
           /\ command_rx' = Tail(command_rx)
           /\ last'.input = Head(command_rx).kind
           /\ info' = Applied(Head(command_rx), info)

-----------------------------------------------------------------------------
(* C18 *)

\* C18: the input handled last has sent the one event of its transition:
\* Started for Start, Stopped for Stop, Paused for a Pause in Running,
\* Resumed for a Resume in Paused and, for a tick's transition or a Skip in
\* Running or Paused, Completed when it left the engine Completed and
\* PhaseChanged when it entered another phase.
C18_OneEventPerTransition ==
    /\ last.input = "Start" => last.event = "Started"
    /\ last.input = "Stop" => last.event = "Stopped"
    /\ (last.input = "Pause" /\ last.from = "Running") => last.event = "Paused"
    /\ (last.input = "Resume" /\ last.from = "Paused") => last.event = "Resumed"
    /\ (\/ last.input = "PhaseTransition"
        \/ last.input = "Skip" /\ last.from \in {"Running", "Paused"}) =>
           /\ info.state = "Completed" => last.event = "Completed"
           /\ (info.state = "Running" /\ IsSome(info.current_phase)) =>
                  last.event = "PhaseChanged"

-----------------------------------------------------------------------------
(* C19 *)

\* The record p, also in state.json as f, mirrors the snapshot i.
Mirrors(p, f, i) ==
    /\ p.timer_state = i.state
    /\ p.current_phase = i.current_phase
    /\ p.current_workflow = i.current_workflow
    /\ p.current_status = i.current_status
    /\ p.start_time = i.start_time
    /\ p.elapsed_seconds = i.elapsed_time
    /\ f = p

\* C19: when the loop has handled a command or a phase advance that changed
\* the snapshot, the persisted record's timer_state, current_phase,
\* current_workflow, current_status, start_time and elapsed_seconds are the
\* snapshot's (the write to state.json succeeding).
C19_RecordMirrorsSnapshot ==
    [][(/\ last'.input \in {"Start", "Pause", "Resume", "Stop", "Skip", "PhaseTransition"}
        /\ info' # info
        /\ diskOk) =>
          Mirrors(persistent_state', file', info')]_vars

C19_Witness ==
    /\ last = [input |-> "Skip", from |-> "Paused", event |-> "Completed"]
    /\ info.state = "Completed"
    /\ info.elapsed_time > 0
    /\ Persisted(info)

-----------------------------------------------------------------------------
(* C20 *)

CommandKinds == {"Start", "Pause", "Resume", "Stop", "Skip"}

\* The loop handles a tick's first lock scope, where the disk may change.
DiskTick ==
    /\ HandlesTick
    /\ UNCHANGED diskOk

\* C20: while state.json cannot be written, every input leaves the snapshot
\* its handler leaves when the write succeeds, state.json keeps its old
\* record and the loop goes on exactly as it would after a successful write;
\* and once state.json can be written again, the next command or phase
\* advance that changes the snapshot saves the whole of the then-current
\* snapshot.
C20_SaveFailureNotFatal ==
    [][/\ (~diskOk /\ \E k \in CommandKinds : Handles(k)) =>
              /\ info' = Applied(Head(command_rx), info)
              /\ loopAlive'
              /\ file' = file
       /\ (~diskOk /\ DiskTick) =>
              /\ info' = IF CountsDown(info) THEN CountdownInfo(info) ELSE info
              /\ loopAlive'
              /\ file' = file
       /\ (~diskOk /\ TransitionStep) =>
              /\ info' = TransitionInfo(info)
              /\ loopAlive' = (TransitionOutcome(info) \in {"next", "wrap"})
              /\ file' = file
       /\ (/\ diskOk
           /\ (\E k \in CommandKinds : Handles(k)) \/ TransitionStep
           /\ info' # info) =>
              Mirrors(persistent_state', file', info')]_vars

C20_Witness ==
    /\ ~diskOk
    /\ last = [input |-> "Stop", from |-> "Paused", event |-> "Stopped"]
    /\ info.state = "Idle"
    /\ persistent_state.timer_state = "Idle"
    /\ file.timer_state = "Paused"
    /\ loopAlive

-----------------------------------------------------------------------------
(* C21 *)

\* C21 (as stated): in every snapshot current_phase is Some if and only if
\* current_workflow is Some and the run has not reached Completed.
C21_PhaseIffWorkflowRuns ==
    IsSome(info.current_phase)
        <=> (IsSome(info.current_workflow) /\ info.state # "Completed")

\* C21 (amended): in every snapshot current_phase is Some only if
\* current_workflow is Some and the state is Running or Paused; Stop and
\* completion clear it and keep the workflow.
C21_PhaseOnlyWhileRunning ==
    /\ IsSome(info.current_phase)
           => (IsSome(info.current_workflow) /\ info.state \in {"Running", "Paused"})
    /\ last.input = "Stop" => info.current_phase = None

C21_Witness ==
    /\ last.input = "Stop"
    /\ info.state = "Idle"
    /\ info.current_phase = None
    /\ IsSome(info.current_workflow)

-----------------------------------------------------------------------------
(* C22 *)

\* A step of the engine loop, not the start of a new process.
EngineStep == last'.input # "New"

-----------------------------------------------------------------------------
(* C23 *)

\* C23: every Start command in the channel, and the workflow the engine has
\* taken from one, carries a workflow with at least one phase, whatever the
\* catalog was loaded from and whatever was added to it.
C23_NoEmptyWorkflowReachesEngine ==
    /\ \A k \in 1..Len(command_rx) :
           (command_rx[k].kind = "Start" /\ IsSome(command_rx[k].workflow)) =>
               Len(Get(command_rx[k].workflow).phases) >= 1
    /\ IsSome(info.current_workflow) => Len(Get(info.current_workflow).phases) >= 1

-----------------------------------------------------------------------------
(* C24 *)

NameOptions(names) == {None} \cup {Some(n) : n \in names}

\* The start command's workflow or status, given or defaulted, is not in
\* its catalog.
NotInCatalog(workflow, status) ==
    \/ get_workflow(IF IsSome(workflow) THEN Get(workflow) ELSE DefaultWorkflowName) = None
    \/ get_status(IF IsSome(status) THEN Get(status) ELSE DefaultStatusName) = None

NotFoundErrors ==
    {"Workflow not found", "Default workflow not found",
     "Status not found", "Default status not found"}

\* C24: a start command whose workflow or status, given or defaulted, is not
\* in the catalog returns a not-found error, enqueues nothing and leaves the
\* snapshot and the persisted record unchanged.
C24_UnknownNameRejected ==
    [][\A workflow \in NameOptions(WorkflowNames), status \in NameOptions(StatusNames) :
          (CliStart(workflow, status) /\ NotInCatalog(workflow, status)) =>
              /\ rejected' \in NotFoundErrors
              /\ UNCHANGED <<command_rx, info, persistent_state, file>>]_vars

C24_Witness ==
    /\ rejected = "Default workflow not found"
    /\ get_workflow(DefaultWorkflowName) = None
    /\ command_rx = <<>>
    /\ info.state = "Running"
    /\ Persisted(info)

-----------------------------------------------------------------------------
(* C25 *)

\* The current phase's name is not in the current workflow's phase list.
PhaseNotFound(i) ==
    /\ HasPhase(i)
    /\ position(PhasesOf(i), Get(i.current_phase).name) = 0

\* The snapshot is reset to Idle, and the reset is persisted.
ResetToIdle ==
    /\ info'.state = "Idle"
    /\ info'.current_phase = None
    /\ info'.time_remaining = None
    /\ Mirrors(persistent_state', file', info')

\* C25 (the tick's half): phase advance by tick exhaustion that does not
\* find the current phase resets to Idle and persists.
TickAdvanceResets == (TransitionStep /\ PhaseNotFound(info)) => ResetToIdle

\* C25: phase advance, by tick exhaustion or by Skip, that does not find the
\* current phase's name in the workflow's phase list resets the snapshot to
\* Idle with current_phase and time_remaining None and persists the reset.
C25_NotFoundResetsToIdle ==
    [][/\ TickAdvanceResets
       /\ (/\ Handles("Skip")
           /\ info.state \in {"Running", "Paused"}
           /\ PhaseNotFound(info)) => ResetToIdle]_vars

-----------------------------------------------------------------------------
(* C26 *)

\* The loop handles a tick while Running with more than 1 s remaining.
HandlesCountdown ==
    /\ HandlesTick
    /\ UNCHANGED diskOk
    /\ info.state = "Running"
    /\ IsSome(info.time_remaining)
    /\ Get(info.time_remaining) > 1

\* C26: a tick handled while Running with time_remaining > 1 s takes 1 s off
\* time_remaining, adds 1 s to elapsed_time and leaves state, current_phase,
\* current_workflow, current_status, start_time and pause_time unchanged.
C26_CountdownTick ==
    [][HandlesCountdown =>
          info' = [info EXCEPT !.time_remaining = Some(Get(info.time_remaining) - 1),
                               !.elapsed_time = info.elapsed_time + 1]]_vars

C26_Witness ==
    /\ last = [input |-> "Tick", from |-> "Running", event |-> "none"]
    /\ info.state = "Running"
    /\ pc = "select"
    /\ info.elapsed_time > 1
    /\ info.time_remaining =
           Some(Minutes(Get(info.current_phase).duration) - info.elapsed_time)

-----------------------------------------------------------------------------
(* C27 *)

\* C27: a countdown tick writes the persisted record exactly when the new
\* elapsed_time is a multiple of 10 s; so while Running the persisted
\* elapsed_seconds, of the same phase, never exceeds the snapshot's
\* elapsed_time and is less than 10 s behind it.
C27_SaveEveryTenSeconds ==
    /\ [][HandlesCountdown =>
              IF info'.elapsed_time % SaveEvery = 0
              THEN Mirrors(persistent_state', file', info')
              ELSE UNCHANGED <<persistent_state, file>>]_vars
    /\ [](info.state = "Running" =>
              /\ persistent_state.current_phase = info.current_phase
              /\ persistent_state.elapsed_seconds <= info.elapsed_time
              /\ info.elapsed_time - persistent_state.elapsed_seconds < SaveEvery)

C27_Witness ==
    /\ last = [input |-> "Tick", from |-> "Running", event |-> "none"]
    /\ info.state = "Running"
    /\ info.elapsed_time = SaveEvery + SaveEvery
    /\ persistent_state.elapsed_seconds = info.elapsed_time
    /\ file = persistent_state

-----------------------------------------------------------------------------
(* C28 *)

\* The step takes the command at the head of the channel.
TakesCommand ==
    /\ command_rx # <<>>
    /\ command_rx' = Tail(command_rx)
    /\ last'.input = Head(command_rx).kind

\* The step is the whole handling of one command by the loop at its select.
OneCommand == pc = "select" /\ pc' = "select" /\ TakesCommand

\* The step is a lock scope of the one tick the loop is handling.
OneTick ==
    /\ UNCHANGED command_rx
    /\ \/ pc = "select" /\ last'.input = "Tick"
       \/ pc = "advance" /\ pc' = "select" /\ last'.input = "PhaseTransition"

\* The step is the construction of a new engine.
Construction == last'.input = "New" /\ pc' = "select"

\* C28: the loop handles one input to completion before the next: a command
\* is taken from the channel only when no tick is in progress, a tick in
\* progress is finished by the next step of the loop, and every change of the
\* snapshot is made by the loop handling one tick or one command (or by the
\* construction of the engine).
C28_OneInputAtATime ==
    [][/\ (TakesCommand \/ Len(command_rx') < Len(command_rx)) =>
              (OneCommand \/ Construction)
       /\ (pc = "advance" /\ (info' # info \/ pc' # pc \/ last' # last)) =>
              (OneTick \/ Construction)
       /\ info' # info =>
              /\ loopAlive \/ Construction
              /\ OneCommand \/ OneTick \/ Construction]_vars

\* A command waits in the channel while a tick is between its two lock scopes.
C28_Witness ==
    /\ pc = "advance"
    /\ loopAlive
    /\ command_rx # <<>>
    /\ last.input = "Tick"

-----------------------------------------------------------------------------
(* C29 *)

\* The fields other than state and pause_time are the same in i and j.
SameButStateAndPause(i, j) ==
    /\ i.current_phase = j.current_phase
    /\ i.time_remaining = j.time_remaining
    /\ i.elapsed_time = j.elapsed_time
    /\ i.current_workflow = j.current_workflow
    /\ i.current_status = j.current_status
    /\ i.start_time = j.start_time

\* C29: a Pause handled while Running changes only state (to Paused) and
\* pause_time (to now); a Resume handled while Paused changes only state (to
\* Running) and pause_time (to None); a tick handled in between, while
\* Paused, changes nothing. Step by step, Pause, any number of ticks and
\* Resume therefore give back the state, current_phase, time_remaining,
\* elapsed_time, current_workflow, current_status and start_time from before
\* the Pause.
C29_PauseResumeRoundTrip ==
    [][/\ (Handles("Pause") /\ info.state = "Running") =>
              /\ info'.state = "Paused"
              /\ info'.pause_time = Some(Now)
              /\ SameButStateAndPause(info, info')
       /\ (HandlesTick /\ info.state = "Paused") => info' = info
       /\ (Handles("Resume") /\ info.state = "Paused") =>
              /\ info'.state = "Running"
              /\ info'.pause_time = None
              /\ SameButStateAndPause(info, info')]_vars

\* Resumed from a pause taken in the middle of a phase.
C29_Witness ==
    /\ last = [input |-> "Resume", from |-> "Paused", event |-> "Resumed"]
    /\ info.state = "Running"
    /\ info.pause_time = None
    /\ info.elapsed_time > 0
    /\ IsSome(info.time_remaining)
    /\ IsSome(info.start_time)

-----------------------------------------------------------------------------
(* C30 *)

\* Running in a phase, the last input a tick and no command waiting.
TickingInPhase ==
    /\ info.state = "Running"
    /\ IsSome(info.current_phase)
    /\ loopAlive
    /\ last.input = "Tick"
    /\ command_rx = <<>>

\* The phase was exhausted and left, or something other than a tick came in:
\* a command, or the end of the process.
AdvancedOrInterrupted ==
    \/ pc = "advance"
    \/ last.input # "Tick"
    \/ command_rx # <<>>

\* C30: whenever the state is Running with a current phase, however the
\* snapshot was reached (commands, ticks, restart from a persisted record,
\* also one saved while Paused and resumed after the restart), fair ticks
\* with no further command eventually exhaust the phase, so that it advances
\* or the workflow completes.
C30_RunningMakesProgress == TickingInPhase ~> AdvancedOrInterrupted

-----------------------------------------------------------------------------
(* C31 *)

\* C31: in every reachable snapshot with a time_remaining and a current
\* phase, time_remaining and elapsed_time are not negative and add up to the
\* current phase's duration in seconds.
C31_RemainingPlusElapsed ==
    (IsSome(info.time_remaining) /\ IsSome(info.current_phase)) =>
        /\ Get(info.time_remaining) >= 0
        /\ info.elapsed_time >= 0
        /\ Get(info.time_remaining) + info.elapsed_time =
               Minutes(Get(info.current_phase).duration)

-----------------------------------------------------------------------------
(* C32 *)

\* Outside Paused there is no pause_time.
NoPauseTimeUnlessPaused == IsSome(info.pause_time) => info.state = "Paused"

\* A Paused snapshot has its pause_time.
PausedHasPauseTime == info.state = "Paused" => IsSome(info.pause_time)

\* C32: in every reachable snapshot pause_time is Some exactly when the state
\* is Paused: Resume, Skip (to a next phase or to completion), Start and Stop
\* out of Paused clear it.
C32_PauseTimeIffPaused == NoPauseTimeUnlessPaused /\ PausedHasPauseTime

-----------------------------------------------------------------------------
(* C33 *)

\* The workflows `workflow add` can have put in the catalog.
AddedWorkflows ==
    {Workflow(name, parse_phases(phases).phases, TRUE) :
        name \in AddedNames, phases \in AddedTexts}

\* The loop runs workflow w.
Runs(w) ==
    /\ loopAlive
    /\ info.state = "Running"
    /\ info.current_workflow = Some(w)

\* C33: for every workflow parse_phases accepts, repeated phase names
\* included, advancement goes through the phases in list order, so that
\* under fair ticks every phase of the list becomes the current phase (unless
\* another command comes in first).
C33_EveryPhaseReached ==
    \A w \in AddedWorkflows : \A k \in 1..Len(w.phases) :
        Runs(w) ~> \/ info.current_phase = Some(w.phases[k])
                   \/ ~Runs(w)
                   \/ command_rx # <<>>

-----------------------------------------------------------------------------
(* C34 *)

\* C34: a Stop leaves current_workflow, current_status and elapsed_time as
\* they were and clears only state (to Idle), current_phase, time_remaining,
\* start_time and pause_time; the previous workflow stays in the snapshot and
\* in the persisted record.
C34_StopKeepsWorkflow ==
    [][Handles("Stop") =>
          /\ info'.current_workflow = info.current_workflow
          /\ info'.current_status = info.current_status
          /\ info'.elapsed_time = info.elapsed_time
          /\ info'.state = "Idle"
          /\ info'.current_phase = None
          /\ info'.time_remaining = None
          /\ info'.start_time = None
          /\ info'.pause_time = None
          /\ persistent_state'.current_workflow = info.current_workflow
          /\ file'.current_workflow = info.current_workflow]_vars

\* Stopped in the middle of a phase: the workflow, the status and the elapsed
\* seconds are still there.
C34_Witness ==
    /\ last.input = "Stop"
    /\ last.from \in {"Running", "Paused"}
    /\ info.state = "Idle"
    /\ IsSome(info.current_workflow)
    /\ IsSome(info.current_status)
    /\ info.elapsed_time > 0
    /\ persistent_state.current_workflow = info.current_workflow

====
